---------------------------- MODULE Spec2Model ----------------------------
(***************************************************************************)
(* A model of the AAPB-PUA Kaldi wrapper (src/app.py): the translation of  *)
(* speech segments to the "patchwork" timeline, the conversion of a Kaldi  *)
(* transcript to text documents, tokens, time frames and alignments (the   *)
(* segmented walk and the un-segmented path), and one _annotate run over a *)
(* batch of audio documents with its temporary directories.                *)
(*                                                                         *)
(* Numbers.  Segment times are whole time units (milliseconds).  A         *)
(* transcript's "time" and "duration" are seconds, floats in the code.     *)
(* A float of the model is a multiple of 1/Res of its unit and is held as  *)
(* that integer multiple: a transcript value k stands for k/Res seconds,   *)
(* its product with timeunit_conv for (k * timeunit_conv)/Res time units.  *)
(* Res is a power of two and every value stays far below 2^53/Res, so the  *)
(* code's floating-point products, sums and comparisons are exact on these *)
(* values and the integer arithmetic of the model is the code's; int(),    *)
(* the truncation to whole time units, is Trunc.  Transcript values that   *)
(* are no multiple of 1/Res of a second (1.001, say, whose product with    *)
(* 1000 is 1000.9999999999999 in the code) are outside the model.          *)
(* A text is a sequence of one-character strings.                          *)
(***************************************************************************)
EXTENDS Integers, Sequences, FiniteSets, TLC

VARIABLES
    pc,               \* position of the running operation
    error,            \* the exception that ended it, "" when none
    speech_segments,  \* the "speech" TimeFrames of the segmentation view, in annotation order
    words,            \* transcript['words']
    layout,           \* what _align_segmentations_to_patchwork returned
    index,            \* loop index over words (0-based, as enumerate)
    cur_segment,      \* running state of the segmented walk
    raw_text,
    position,
    textdoc,          \* 1-based place in textdocs of the TextDocument being built
    textdocs,         \* the view's TextDocument annotations, in creation order
    tokens,           \* the view's Token annotations
    timeframes,       \* the view's TimeFrame annotations
    aligns,           \* the view's Alignment annotations
    batch,            \* _annotate: the audio documents of the MMIF
    run               \* _annotate: the state of one run

vars == <<pc, error, speech_segments, words, layout, index, cur_segment, raw_text,
          position, textdoc, textdocs, tokens, timeframes, aligns, batch, run>>

convVars == <<speech_segments, words, layout, index, cur_segment, raw_text,
              position, textdoc, textdocs, tokens, timeframes, aligns>>

----------------------------------------------------------------------------
(* Program constants (class attributes of AAPB_PUA_Kaldi). *)

timeunit == "milliseconds"

silence_gap == 1

timeunit_conv == [milliseconds |-> 1000, seconds |-> 1]

token_boundary == <<" ">>

\* the floats of the model are the multiples of 1/Res of their unit
Res == 1024

(* Bounds of the model. *)

MaxSegs == 3

MaxSegTime == 3

MaxWords == 2

MaxDocs == 2

----------------------------------------------------------------------------
(* Helpers over sequences. *)

SeqsUpTo(S, n) == UNION {[1..k -> S] : k \in 0..n}

\* int(x) of a float x held in multiples of 1/Res: truncation toward zero
Trunc(x) == IF x >= 0 THEN x \div Res ELSE -((-x) \div Res)

\* a whole number of time units, as the float the code computes with
ToSub(t) == t * Res

----------------------------------------------------------------------------
(* _align_segmentations_to_patchwork *)

RECURSIVE InsertByStart(_, _)
\* sorted(): stable, so a segment goes after every one whose start is <= its own
InsertByStart(sorted, seg) ==
    IF sorted = <<>> THEN <<seg>>
    ELSE IF Head(sorted).start <= seg.start
         THEN <<Head(sorted)>> \o InsertByStart(Tail(sorted), seg)
         ELSE <<seg>> \o sorted

RECURSIVE SortUpTo(_, _)
SortUpTo(segs, n) ==
    IF n = 0 THEN <<>> ELSE InsertByStart(SortUpTo(segs, n - 1), segs[n])

\* variant: the segments taken in annotation order
UnsortedSegments(segs) == segs

\* sorted(speech_segments, key=lambda x: x[1])
SortedSegments(segs) == SortUpTo(segs, Len(segs))

PatchworkGap == silence_gap * timeunit_conv[timeunit]

RECURSIVE NewEnd(_, _)
\* new_ends[i] (i 1-based here), with new_starts[i] as the loop builds it
NewEnd(sorted, i) ==
    LET new_start == IF i = 1 THEN 0 ELSE NewEnd(sorted, i - 1) + PatchworkGap
    IN  sorted[i].end - sorted[i].start + new_start

NewStart(sorted, i) == IF i = 1 THEN 0 ELSE NewEnd(sorted, i - 1) + PatchworkGap

NoLayout == [segment_ids |-> <<>>, original_starts |-> <<>>, original_ends |-> <<>>,
             patchwork_starts |-> <<>>, patchwork_ends |-> <<>>]

\* the function's outcome: the five parallel sequences, or the ValueError of
\* unpacking zip(*[]) into three names when there is no speech segment
align_segmentations_to_patchwork(segs) ==
    LET sorted == SortedSegments(segs)
        n == Len(sorted)
    IN  IF n = 0
        THEN [raised |-> "ValueError", value |-> NoLayout]
        ELSE [raised |-> "",
              value |-> [segment_ids      |-> [i \in 1..n |-> sorted[i].id],
                         original_starts  |-> [i \in 1..n |-> sorted[i].start],
                         original_ends    |-> [i \in 1..n |-> sorted[i].end],
                         patchwork_starts |-> [i \in 1..n |-> NewStart(sorted, i)],
                         patchwork_ends   |-> [i \in 1..n |-> NewEnd(sorted, i)]]]

----------------------------------------------------------------------------
(* Inputs of the layout specification: every list of at most MaxSegs speech *)
(* segments with whole-unit bounds in 0..MaxSegTime, in any order.          *)

SegIntervals == {<<s, e>> \in (0..MaxSegTime) \X (0..MaxSegTime) : s < e}

\* annotation k of the segmentation view has id k
WithIds(ivs) == [k \in 1..Len(ivs) |-> [id |-> k, start |-> ivs[k][1], end |-> ivs[k][2]]]

SegLists == {WithIds(ivs) : ivs \in SeqsUpTo(SegIntervals, MaxSegs)}

NoRun == [step |-> "idle"]

IdleWalk ==
    /\ index = 0 /\ cur_segment = 0 /\ raw_text = <<>> /\ position = 0
    /\ textdoc = 0 /\ textdocs = <<>> /\ tokens = <<>> /\ timeframes = <<>> /\ aligns = <<>>

InitLayout ==
    /\ pc = "align" /\ error = ""
    /\ speech_segments \in SegLists
    /\ layout = NoLayout
    /\ words = <<>> /\ IdleWalk
    /\ batch = <<>> /\ run = NoRun

AlignSegmentations ==
    /\ pc = "align"
    /\ LET r == align_segmentations_to_patchwork(speech_segments)
       IN  /\ layout' = r.value
           /\ error' = r.raised
           /\ pc' = IF r.raised = "" THEN "done" ELSE "raised"
    /\ UNCHANGED <<speech_segments, words, index, cur_segment, raw_text, position, textdoc,
                   textdocs, tokens, timeframes, aligns, batch, run>>

NextLayout == AlignSegmentations

SpecLayout == InitLayout /\ [][NextLayout]_vars

----------------------------------------------------------------------------
(* Annotations of the output view.  An annotation's id is its type and its  *)
(* creation rank among the view's annotations of that type; a speech        *)
(* segment's id is the one of its TimeFrame in the segmentation view.       *)

TdId(k) == [type |-> "TextDocument", n |-> k]

TokenId(k) == [type |-> "Token", n |-> k]

TfId(k) == [type |-> "TimeFrame", n |-> k]

SegmentId(id) == [type |-> "Segment", n |-> id]

AudioDocId == [type |-> "AudioDocument", n |-> 1]

\* _create_td: a new TextDocument holding the text `doc`
create_td(tds, doc) == Append(tds, [id |-> TdId(Len(tds) + 1), text |-> doc])

\* _create_token; `src` is the transcript index of the word it was made from
\* (history kept for the properties, not a property of the annotation)
create_token(toks, word, start, end, source_doc, src) ==
    Append(toks, [id |-> TokenId(Len(toks) + 1), word |-> word, start |-> start,
                  end |-> end, document |-> source_doc, src |-> src])

\* _create_tf
create_tf(tfs, start, end) ==
    Append(tfs, [id |-> TfId(Len(tfs) + 1), frameType |-> "speech",
                 start |-> start, end |-> end])

\* _create_align
create_align(als, source, target) == Append(als, [source |-> source, target |-> target])

----------------------------------------------------------------------------
(* _kaldi_to_segmented_textdocument *)

\* a Python list read at a 0-based index, negative indices counting from the end
PyIndex(seq, i) == IF i < 0 THEN seq[Len(seq) + i + 1] ELSE seq[i + 1]

RECURSIVE BisectRight(_, _, _, _)
\* bisect.bisect(a, x): a holds whole units, x is a float in multiples of 1/Res
BisectRight(a, x, lo, hi) ==
    IF lo < hi
    THEN LET mid == (lo + hi) \div 2
         IN  IF x < ToSub(PyIndex(a, mid))
             THEN BisectRight(a, x, lo, mid)
             ELSE BisectRight(a, x, mid + 1, hi)
    ELSE lo

\* start_in_patchwork and end_in_patchwork of a word: floats, in multiples of
\* 1/Res of a time unit
StartInPatchwork(w) == w.time * timeunit_conv[timeunit]

EndInPatchwork(w) == w.duration * timeunit_conv[timeunit] + StartInPatchwork(w)

\* segment_num = bisect.bisect(patchwork_starts, start_in_patchwork) - 1
SegmentNum(L, w) ==
    BisectRight(L.patchwork_starts, StartInPatchwork(w), 0, Len(L.patchwork_starts)) - 1

\* variants of the test: ends compared with >=, and no test at all
FallsIntoSegmentNonStrict(L, w) ==
    LET segment_num == SegmentNum(L, w)
    IN  /\ ToSub(PyIndex(L.patchwork_ends, segment_num)) >= StartInPatchwork(w)
        /\ ToSub(PyIndex(L.patchwork_ends, segment_num)) >= EndInPatchwork(w)

FallsIntoSegmentAlways(L, w) == TRUE

\* the test of lines 150-151: the token falls into the segment
FallsIntoSegment(L, w) ==
    LET segment_num == SegmentNum(L, w)
    IN  /\ ToSub(PyIndex(L.patchwork_ends, segment_num)) > StartInPatchwork(w)
        /\ ToSub(PyIndex(L.patchwork_ends, segment_num)) > EndInPatchwork(w)

\* variant: the offset taken the other way round
OffsetFromPatchwork(L, segment_num) ==
    ToSub(PyIndex(L.patchwork_starts, segment_num))
        - ToSub(PyIndex(L.original_starts, segment_num))

\* offset_from_original = original_starts[segment_num] - patchwork_starts[segment_num]
OffsetFromOriginal(L, segment_num) ==
    ToSub(PyIndex(L.original_starts, segment_num))
        - ToSub(PyIndex(L.patchwork_starts, segment_num))

\* "when moved on to the next speech segment"
MovedOn(segment_num, cur) == segment_num - 1 = cur

\* the state before the loop: an empty text doc, cur_segment 0, position 0
SegmentedStart ==
    [cur_segment |-> 0, raw_text |-> <<>>, position |-> 0, textdoc |-> 1,
     textdocs |-> create_td(<<>>, <<>>), tokens |-> <<>>, timeframes |-> <<>>,
     aligns |-> <<>>]

\* one iteration of the loop over transcript['words'], on word w of index idx
SegmentedBody(s, L, w, idx) ==
    LET raw_token == w.word
        char_start == s.position
        char_end == char_start + Len(raw_token)
        counted == [s EXCEPT !.position = s.position + Len(raw_token) + Len(token_boundary)]
        segment_num == SegmentNum(L, w)
    IN  IF ~FallsIntoSegment(L, w)
        THEN counted
        ELSE
          LET s1 == IF MovedOn(segment_num, counted.cur_segment)
                    THEN [counted EXCEPT
                            !.textdocs = create_td(
                                [counted.textdocs EXCEPT ![counted.textdoc].text = counted.raw_text],
                                <<>>),
                            !.aligns = create_align(counted.aligns,
                                SegmentId(PyIndex(L.segment_ids, counted.cur_segment)),
                                TdId(counted.textdoc)),
                            !.position = 0,
                            !.cur_segment = counted.cur_segment + 1,
                            !.raw_text = <<>>,
                            !.textdoc = Len(counted.textdocs) + 1]
                    ELSE counted
              offset_from_original == OffsetFromOriginal(L, segment_num)
              start == Trunc(StartInPatchwork(w) + offset_from_original)
              end == Trunc(EndInPatchwork(w) + offset_from_original)
              toks == create_token(s1.tokens, raw_token, char_start, char_end, s1.textdoc, idx)
              tfs == create_tf(s1.timeframes, start, end)
          IN  [s1 EXCEPT
                 !.tokens = toks,
                 !.timeframes = tfs,
                 !.aligns = create_align(s1.aligns, tfs[Len(tfs)].id, toks[Len(toks)].id),
                 !.raw_text = IF Len(s1.raw_text) = 0 THEN raw_token
                              ELSE s1.raw_text \o token_boundary \o raw_token]

WalkState ==
    [cur_segment |-> cur_segment, raw_text |-> raw_text, position |-> position,
     textdoc |-> textdoc, textdocs |-> textdocs, tokens |-> tokens,
     timeframes |-> timeframes, aligns |-> aligns]

SetWalkState(s) ==
    /\ cur_segment' = s.cur_segment /\ raw_text' = s.raw_text /\ position' = s.position
    /\ textdoc' = s.textdoc /\ textdocs' = s.textdocs /\ tokens' = s.tokens
    /\ timeframes' = s.timeframes /\ aligns' = s.aligns

----------------------------------------------------------------------------
(* Inputs of the segmented walk.  The segmentation view holds a             *)
(* subsequence of SegPalette (unsorted, as annotation order is free); the   *)
(* transcript holds at most MaxWords words whose times lie at the start of  *)
(* a patchwork segment, 1/Res of a second into it, or 1/Res of a second     *)
(* past its end (in the gap, or past the layout), and last 1/Res or an      *)
(* eighth of a second.  The segments of the palette start and end at        *)
(* multiples of an eighth of a second, so do the patchwork's.               *)
(* SuiteSegments and SuiteWords are the scenario of tests/test_app.py.      *)

SegPalette == << <<5000, 5125>>, <<0, 125>>, <<250, 500>> >>

RECURSIVE SubSeqs(_)
SubSeqs(s) ==
    IF s = <<>> THEN {<<>>}
    ELSE LET rest == SubSeqs(Tail(s))
         IN  rest \cup {<<Head(s)>> \o r : r \in rest}

WalkSegLists == {WithIds(ivs) : ivs \in SubSeqs(SegPalette)}

WordTexts == {<<"a">>, <<"b", "c">>}

\* an eighth of a second, as a transcript value
Eighth == Res \div 8

Durations == {1, Eighth}

\* the transcript value (seconds) of a whole number of eighths of a second
\* given in time units
InSeconds(t) == (t * Res) \div timeunit_conv[timeunit]

TokenTimes(L) ==
    UNION {{InSeconds(L.patchwork_starts[i]), InSeconds(L.patchwork_starts[i]) + 1,
            InSeconds(L.patchwork_ends[i]) + 1} : i \in 1..Len(L.patchwork_starts)}

WordObjs(times) ==
    {[word |-> x, time |-> t, duration |-> d] : x \in WordTexts, t \in times, d \in Durations}

SuiteSegments ==
    WithIds(<< <<0, 10 * timeunit_conv[timeunit]>>, <<20 * timeunit_conv[timeunit], 29 * timeunit_conv[timeunit]>> >>)

SuiteDigits == <<"1", "2", "3", "4", "5", "6", "7", "8", "9", "0">>

\* generate_pua_testcase: times 0, 2, ..., 18 s, duration '1.0', words '1'..'0'
SuiteWords ==
    [k \in 1..10 |-> [word |-> <<SuiteDigits[k]>>,
                      time |-> 2 * (k - 1) * Res,
                      duration |-> Res]]

Init ==
    /\ pc = "start" /\ error = ""
    /\ \/ /\ speech_segments \in WalkSegLists
          /\ words \in SeqsUpTo(
                 WordObjs(TokenTimes(align_segmentations_to_patchwork(speech_segments).value)),
                 MaxWords)
       \/ /\ speech_segments = SuiteSegments
          /\ words = SuiteWords
    /\ layout = NoLayout
    /\ IdleWalk
    /\ batch = <<>> /\ run = NoRun

\* lines 127-134: the layout, then the first (empty) text doc
SegmentedEnter ==
    /\ pc = "start"
    /\ LET r == align_segmentations_to_patchwork(speech_segments)
       IN  /\ layout' = r.value
           /\ error' = r.raised
           /\ IF r.raised # ""
              THEN /\ pc' = "raised"
                   /\ UNCHANGED <<cur_segment, raw_text, position, textdoc, textdocs,
                                  tokens, timeframes, aligns>>
              ELSE /\ pc' = IF Len(words) = 0 THEN "done" ELSE "loop"
                   /\ SetWalkState(SegmentedStart)
    /\ UNCHANGED <<speech_segments, words, index, batch, run>>

\* lines 135-179: one iteration; the function returns after the last word
SegmentedLoop ==
    /\ pc = "loop"
    /\ index < Len(words)
    /\ SetWalkState(SegmentedBody(WalkState, layout, words[index + 1], index))
    /\ index' = index + 1
    /\ pc' = IF index + 1 = Len(words) THEN "done" ELSE "loop"
    /\ UNCHANGED <<error, speech_segments, words, layout, batch, run>>

Next == SegmentedEnter \/ SegmentedLoop

Spec == Init /\ [][Next]_vars

----------------------------------------------------------------------------
(* C1: for every non-empty list of speech segments, in any input order, the *)
(* returned layout has one entry per segment, sorted by original_start,     *)
(* starts at patchwork time 0, preserves every segment's duration and puts  *)
(* exactly the silence gap between consecutive segments.                    *)
C1_LayoutInvariants ==
    (pc = "done" /\ speech_segments # <<>>) =>
        LET n == Len(speech_segments)
            L == layout
        IN  /\ Len(L.segment_ids) = n /\ Len(L.original_starts) = n
            /\ Len(L.original_ends) = n /\ Len(L.patchwork_starts) = n
            /\ Len(L.patchwork_ends) = n
            \* one entry per speech segment: the entries are the input segments
            /\ \A k \in 1..n : \E i \in 1..n :
                  /\ L.segment_ids[i] = speech_segments[k].id
                  /\ L.original_starts[i] = speech_segments[k].start
                  /\ L.original_ends[i] = speech_segments[k].end
            /\ \A i, j \in 1..n : i # j => L.segment_ids[i] # L.segment_ids[j]
            /\ \A i \in 1..(n - 1) : L.original_starts[i] <= L.original_starts[i + 1]
            /\ L.patchwork_starts[1] = 0
            /\ \A i \in 1..n : L.patchwork_ends[i] - L.patchwork_starts[i]
                                   = L.original_ends[i] - L.original_starts[i]
            /\ \A i \in 2..n : L.patchwork_starts[i]
                                   = L.patchwork_ends[i - 1] + silence_gap * timeunit_conv[timeunit]

C1_Witness ==
    /\ pc = "done"
    /\ Len(speech_segments) = 3
    /\ speech_segments[1].start > speech_segments[2].start
    /\ speech_segments[2].start > speech_segments[3].start
    /\ layout.patchwork_starts[3] = layout.patchwork_ends[2] + 1000

(* C10: building the layout from an empty segment list raises no error and  *)
(* yields five empty parallel sequences.                                    *)
C10_EmptyListYieldsEmptyLayout ==
    (pc \in {"done", "raised"} /\ speech_segments = <<>>) =>
        (pc = "done" /\ error = "" /\ layout = NoLayout)


----------------------------------------------------------------------------
(* _kaldi_to_single_textdocument *)

RECURSIVE JoinWords(_)
\* self.token_boundary.join([...])
JoinWords(ws) ==
    IF ws = <<>> THEN <<>>
    ELSE IF Len(ws) = 1 THEN ws[1]
    ELSE ws[1] \o token_boundary \o JoinWords(Tail(ws))

\* variant: the boundary character not counted
CharOffsetNoBoundary(char_offset, raw_token) == char_offset + Len(raw_token)

\* char_offset += len(raw_token) + len(self.token_boundary)
NextCharOffset(char_offset, raw_token) == char_offset + Len(raw_token) + Len(token_boundary)

\* lines 110-114: the text doc of all words, its link from the audio document;
\* `position` holds char_offset
SingleStart(ws) ==
    LET tds == create_td(<<>>, JoinWords([i \in 1..Len(ws) |-> ws[i].word]))
    IN  [cur_segment |-> 0, raw_text |-> tds[1].text, position |-> 0, textdoc |-> 1,
         textdocs |-> tds, tokens |-> <<>>, timeframes |-> <<>>,
         aligns |-> create_align(<<>>, AudioDocId, tds[1].id)]

\* one iteration of the loop of lines 115-124
SingleBody(s, w, idx) ==
    LET raw_token == w.word
        tok_start == s.position
        tok_end == tok_start + Len(raw_token)
        tf_start == Trunc(w.time * timeunit_conv[timeunit])
        tf_end == Trunc(w.duration * timeunit_conv[timeunit]) + tf_start
        toks == create_token(s.tokens, w.word, tok_start, tok_end, s.textdoc, idx)
        tfs == create_tf(s.timeframes, tf_start, tf_end)
    IN  [s EXCEPT !.position = NextCharOffset(s.position, raw_token),
                  !.tokens = toks,
                  !.timeframes = tfs,
                  !.aligns = create_align(s.aligns, tfs[Len(tfs)].id, toks[Len(toks)].id)]

(* Inputs of the un-segmented path: at most MaxWords words at times 0,     *)
(* 1/Res of a second and an eighth of a second, or the suite's ten words.   *)

SingleTimes == {0, 1, Eighth}

InitSingle ==
    /\ pc = "start" /\ error = ""
    /\ speech_segments = <<>>
    /\ \/ words \in SeqsUpTo(WordObjs(SingleTimes), MaxWords)
       \/ words = SuiteWords
    /\ layout = NoLayout
    /\ IdleWalk
    /\ batch = <<>> /\ run = NoRun

SingleEnter ==
    /\ pc = "start"
    /\ SetWalkState(SingleStart(words))
    /\ pc' = IF Len(words) = 0 THEN "done" ELSE "loop"
    /\ UNCHANGED <<error, speech_segments, words, layout, index, batch, run>>

SingleLoop ==
    /\ pc = "loop"
    /\ index < Len(words)
    /\ SetWalkState(SingleBody(WalkState, words[index + 1], index))
    /\ index' = index + 1
    /\ pc' = IF index + 1 = Len(words) THEN "done" ELSE "loop"
    /\ UNCHANGED <<error, speech_segments, words, layout, batch, run>>

NextSingle == SingleEnter \/ SingleLoop

SpecSingle == InitSingle /\ [][NextSingle]_vars

----------------------------------------------------------------------------
(* _annotate over a batch of audio documents: _patchwork_audiofiles,        *)
(* _run_kaldi, _kaldi_to_mmif and the cleanup of the temporary directories. *)
(* A document has `segment_views` views with TimeFrames; `timeunit` is the  *)
(* timeUnit in the metadata of that view when there is exactly one (the     *)
(* only case in which the code reads it; "absent" when the key is missing); *)
(* `transcript` is what the recognizer writes for the document when it      *)
(* succeeds.  The conversion of one transcript is one step here; the two    *)
(* specifications above model it word by word.                              *)

\* transcripts by what the conversions do with them: well-formed; a word
\* without one of its three fields; a word whose "time" is null (or a list);
\* is a string that is no number ('abc'); is a string of digits ('1')
TranscriptKinds ==
    {"ok", "missing_field", "time_null", "time_text", "time_1_digit", "time_5_digits"}

\* the length of a word's 'time' when it is a string of decimal digits
TimeDigits(kind) == IF kind = "time_1_digit" THEN 1 ELSE 5

\* sys.get_int_max_str_digits() of the interpreter that runs the app: the
\* longest digit string int() converts, 4300 by default and 0 for no limit
IntMaxStrDigits == {0, 4300}

\* line 121: int() of a string of n digits
IntOfDigits(n, max_str_digits) ==
    IF max_str_digits > 0 /\ n > max_str_digits THEN "ValueError" ELSE ""

ViewTimeUnits == {"milliseconds", "seconds", "frames", "absent"}

\* an audio document: the number of its views that contain TimeFrame, its
\* transcript, and for its segmentation view the timeUnit of the view's
\* metadata and whether the view has TimeFrames of frameType 'speech'
Docs ==
    {d \in [segment_views : 0..2, transcript : TranscriptKinds,
            timeunit : ViewTimeUnits, speech : BOOLEAN] :
        d.segment_views # 1 => d.timeunit = "absent" /\ ~d.speech}

Batches == UNION {[1..n -> Docs] : n \in 0..MaxDocs}

\* lines 245-249: the exception, if any, of the time unit's lookups: the read
\* of the view's 'timeUnit', then timeunit_conv[timeunit] once per speech
\* TimeFrame (never, for a view without any)
TimeunitError(unit, speech) ==
    IF unit = "absent" THEN "KeyError"
    ELSE IF speech /\ unit \notin DOMAIN timeunit_conv THEN "KeyError"
    ELSE ""

\* the exception, if any, that converting document d's transcript raises:
\* segmentataion_indices[audiodoc_id] for a document without a segmentation
\* view, the layout of a view without speech segments (line 186), then the
\* reads of word_obj[...] and the arithmetic on word_obj['time']:
\* None * 1000 is a TypeError; a string times 1000 is the string repeated
\* 1000 times, which the sum of line 140 rejects with a TypeError and which
\* int() (line 121) rejects with a ValueError when it is not made of digits
\* or is longer than the interpreter's limit, and converts otherwise
ConversionError(d, kind, speech, tf_src_view, max_str_digits) ==
    IF tf_src_view # {} /\ d \notin tf_src_view THEN "KeyError"
    ELSE IF tf_src_view # {} /\ ~speech THEN "ValueError"
    ELSE IF kind = "missing_field" THEN "KeyError"
    ELSE IF kind = "time_null" THEN "TypeError"
    ELSE IF kind = "time_text"
         THEN (IF tf_src_view = {} THEN "ValueError" ELSE "TypeError")
    ELSE IF kind \in {"time_1_digit", "time_5_digits"}
         THEN (IF tf_src_view = {}
               THEN IntOfDigits(TimeDigits(kind) * timeunit_conv[timeunit], max_str_digits)
               ELSE "TypeError")
    ELSE ""

\* lines 93-96: which conversion a transcript goes through
ConversionPath(tf_src_view) == IF tf_src_view = {} THEN "single" ELSE "segmented"

\* TemporaryDirectory.cleanup()
Cleanup(live, dir) == live \ {dir}

RaiseIn(r, err) == /\ pc' = "raised" /\ error' = err /\ run' = r

InitAnnotate ==
    /\ pc = "begin" /\ error = ""
    /\ batch \in Batches
    /\ \E use \in BOOLEAN, digits \in IntMaxStrDigits :
          run = [use_speech_segmentation |-> use, int_max_str_digits |-> digits,
                 k |-> 0, files |-> <<>>,
                 tf_src_view |-> {}, tmpdir |-> FALSE, live |-> {},
                 transcripts |-> {}, pending |-> {}, views |-> <<>>]
    /\ speech_segments = <<>> /\ layout = NoLayout /\ words = <<>> /\ IdleWalk

\* lines 50-65: the configuration; without use_speech_segmentation every
\* file is the original one, with it _patchwork_audiofiles starts (line 235)
AnnotateBegin ==
    /\ pc = "begin"
    /\ IF run.use_speech_segmentation
       THEN /\ run' = [run EXCEPT !.live = @ \cup {"patchwork_dir"}, !.k = 0]
            /\ pc' = "patchwork"
       ELSE /\ run' = [run EXCEPT
                         !.files = [i \in 1..Len(batch) |-> [doc |-> i, patchwork |-> FALSE]],
                         !.tf_src_view = {}, !.tmpdir = FALSE]
            /\ pc' = "run_kaldi"
    /\ UNCHANGED <<error, batch, convVars>>

\* lines 274-289: the outcomes of _patchwork_audiofile. With speech segments
\* ffmpeg runs and succeeds or fails. Without any, concat() (line 283) is
\* given no stream, and what it does then is the ffmpeg library's: ffmpeg-python
\* raises ValueError before a process is started, a library that accepts the
\* empty list lets ffmpeg run
TrimmerOutcomes(speech) ==
    IF speech THEN {"ok", "ffmpeg.Error"} ELSE {"ok", "ffmpeg.Error", "ValueError"}

\* lines 236-256: one audio document of the loop of _patchwork_audiofiles;
\* the view's timeUnit is looked up in timeunit_conv before the trimmer runs
PatchworkDocument ==
    /\ pc = "patchwork"
    /\ run.k < Len(batch)
    /\ LET d == run.k + 1
           stepped == [run EXCEPT !.k = @ + 1]
       IN  IF batch[d].segment_views > 1
           THEN RaiseIn(run, "ValueError")
           ELSE IF batch[d].segment_views = 1
           THEN IF TimeunitError(batch[d].timeunit, batch[d].speech) # ""
                THEN RaiseIn(run, TimeunitError(batch[d].timeunit, batch[d].speech))
                ELSE \E outcome \in TrimmerOutcomes(batch[d].speech) :
                        IF outcome = "ok"
                        THEN /\ run' = [stepped EXCEPT
                                          !.files = Append(@, [doc |-> d, patchwork |-> TRUE]),
                                          !.tf_src_view = @ \cup {d}]
                             /\ UNCHANGED <<pc, error>>
                        ELSE RaiseIn(run, outcome)
           ELSE /\ run' = [stepped EXCEPT
                             !.files = Append(@, [doc |-> d, patchwork |-> FALSE])]
                /\ UNCHANGED <<pc, error>>
    /\ UNCHANGED <<batch, convVars>>

\* line 257 and line 60: _patchwork_audiofiles returns, tmpdir is its directory
PatchworkReturn ==
    /\ pc = "patchwork"
    /\ run.k = Len(batch)
    /\ run' = [run EXCEPT !.tmpdir = TRUE]
    /\ pc' = "run_kaldi"
    /\ UNCHANGED <<error, batch, convVars>>

\* lines 303-305: the two temporary directories of _run_kaldi
RunKaldiEnter ==
    /\ pc = "run_kaldi"
    /\ run' = [run EXCEPT !.live = @ \cup {"audio_tmpdir", "trans_tmpdir"}, !.k = 0]
    /\ pc' = "kaldi_loop"
    /\ UNCHANGED <<error, batch, convVars>>

\* lines 319-328: one file is resampled and recognized; either process may fail
RunKaldiFile ==
    /\ pc = "kaldi_loop"
    /\ run.k < Len(run.files)
    /\ \E outcome \in {"ok", "ffmpeg.Error", "CalledProcessError"} :
          IF outcome = "ok"
          THEN /\ run' = [run EXCEPT !.k = @ + 1,
                                     !.transcripts = @ \cup {run.files[run.k + 1].doc}]
               /\ UNCHANGED <<pc, error>>
          ELSE RaiseIn(run, outcome)
    /\ UNCHANGED <<batch, convVars>>

\* lines 329-330 and 67-68: audio_tmpdir is cleaned up, the transcripts are listed
RunKaldiReturn ==
    /\ pc = "kaldi_loop"
    /\ run.k = Len(run.files)
    /\ run' = [run EXCEPT !.live = Cleanup(@, "audio_tmpdir"), !.pending = run.transcripts]
    /\ pc' = "kaldi_to_mmif"
    /\ UNCHANGED <<error, batch, convVars>>

\* lines 80-96: one transcript file, in the order os.listdir gives (any order)
KaldiToMmif ==
    /\ pc = "kaldi_to_mmif"
    /\ \E d \in run.pending :
          LET err == ConversionError(d, batch[d].transcript, batch[d].speech,
                                         run.tf_src_view, run.int_max_str_digits)
              view == [doc |-> d, path |-> ConversionPath(run.tf_src_view),
                       complete |-> err = ""]
              r == [run EXCEPT !.pending = @ \ {d}, !.views = Append(@, view)]
          IN  IF err = ""
              THEN /\ run' = r
                   /\ UNCHANGED <<pc, error>>
              ELSE RaiseIn(r, err)
    /\ UNCHANGED <<batch, convVars>>

\* lines 73-77: after the last transcript the directories are cleaned up
AnnotateReturn ==
    /\ pc = "kaldi_to_mmif"
    /\ run.pending = {}
    /\ LET l1 == Cleanup(run.live, "trans_tmpdir")
           l2 == IF run.tmpdir THEN Cleanup(l1, "patchwork_dir") ELSE l1
       IN  run' = [run EXCEPT !.live = l2]
    /\ pc' = "returned"
    /\ UNCHANGED <<error, batch, convVars>>

\* after the caller has let go of the exception and its traceback, the
\* TemporaryDirectory objects of the dead frames are finalized
ImplicitCleanup ==
    /\ pc = "raised"
    /\ run' = [run EXCEPT !.live = {}]
    /\ pc' = "collected"
    /\ UNCHANGED <<error, batch, convVars>>

NextAnnotate ==
    \/ AnnotateBegin
    \/ PatchworkDocument
    \/ PatchworkReturn
    \/ RunKaldiEnter
    \/ RunKaldiFile
    \/ RunKaldiReturn
    \/ KaldiToMmif
    \/ AnnotateReturn
    \/ ImplicitCleanup

SpecAnnotate == InitAnnotate /\ [][NextAnnotate]_vars

----------------------------------------------------------------------------
(* What the properties of the segmented walk speak of, stated from the     *)
(* layout alone.                                                           *)

\* the word's time and duration in time units, as the conversions compute them
PatchworkTime(w) == w.time * timeunit_conv[timeunit]

DurationUnits(w) == w.duration * timeunit_conv[timeunit]

\* the 1-based rank of the last segment whose patchwork start is <= t, 0 if none
LocatedAt(L, t) ==
    Cardinality({i \in 1..Len(L.patchwork_starts) : ToSub(L.patchwork_starts[i]) <= t})

\* the walk accepts the word: start and end both before the located segment's end
Accepts(L, w) ==
    LET i == LocatedAt(L, PatchworkTime(w))
    IN  /\ i >= 1
        /\ PatchworkTime(w) < ToSub(L.patchwork_ends[i])
        /\ PatchworkTime(w) + DurationUnits(w) < ToSub(L.patchwork_ends[i])

\* t lies strictly between a segment's end and the next segment's start, or
\* past the end of the last segment
InGapOrPast(L, t) ==
    \E i \in 1..Len(L.patchwork_ends) :
        /\ ToSub(L.patchwork_ends[i]) < t
        /\ (i < Len(L.patchwork_ends) => t < ToSub(L.patchwork_starts[i + 1]))

Walking == pc \in {"loop", "done"}

\* the transcript indices (0-based) consumed so far
Consumed == 0..(index - 1)

AcceptedSoFar == {k \in Consumed : Accepts(layout, words[k + 1])}

RECURSIVE Joined(_)
\* words joined in order by the single boundary character
Joined(ws) ==
    IF ws = <<>> THEN <<>>
    ELSE IF Len(ws) = 1 THEN ws[1]
    ELSE ws[1] \o <<" ">> \o Joined(Tail(ws))

\* the ranks of the tokens that belong to TextDocument k, in order
TokensOfTd(k) == SelectSeq([j \in 1..Len(tokens) |-> j], LAMBDA j : tokens[j].document = k)

WordsOfTd(k) == [i \in 1..Len(TokensOfTd(k)) |-> tokens[TokensOfTd(k)[i]].word]

SegmentLinksTo(k) ==
    {a \in 1..Len(aligns) : aligns[a].target = TdId(k) /\ aligns[a].source.type = "Segment"}

TokenLinks ==
    {a \in 1..Len(aligns) : aligns[a].source.type = "TimeFrame" /\ aligns[a].target.type = "Token"}

(* C2: once all tokens are consumed, every TextUnit that received a token, *)
(* the last open one included, holds the accepted words of its segment     *)
(* joined by the boundary character and has exactly one alignment link,     *)
(* from its owning segment.                                                 *)
C2_EveryTextUnitFinalized ==
    pc = "done" =>
        \A k \in 1..Len(textdocs) :
            TokensOfTd(k) # <<>> =>
                /\ textdocs[k].text = Joined(WordsOfTd(k))
                /\ Cardinality(SegmentLinksTo(k)) = 1
                /\ \A a \in SegmentLinksTo(k) : \A i \in 1..Len(TokensOfTd(k)) :
                      aligns[a].source = SegmentId(layout.segment_ids[
                          LocatedAt(layout, PatchworkTime(words[tokens[TokensOfTd(k)[i]].src + 1]))])

(* C3: the number of TextUnits emitted by the segmented path equals the     *)
(* number of distinct segments that received an accepted token; a segment   *)
(* without accepted tokens yields no TextUnit.                              *)
C3_NoEmptyTextUnits ==
    pc = "done" =>
        Len(textdocs) = Cardinality({LocatedAt(layout, PatchworkTime(words[k + 1])) : k \in AcceptedSoFar})

(* C4: every accepted token yields exactly one Token, one TimeFrame and one *)
(* token-to-time-frame Alignment, a rejected token none; in the suite's     *)
(* scenario only the token at 10 s is dropped and the view holds 2          *)
(* TextDocuments, 9 Tokens, 9 TimeFrames and 10 Alignments.                 *)
C4_OneTokenFramePerAccepted ==
    Walking =>
        /\ \A k \in Consumed :
              Cardinality({j \in 1..Len(tokens) : tokens[j].src = k})
                  = IF Accepts(layout, words[k + 1]) THEN 1 ELSE 0
        /\ \A j \in 1..Len(tokens) : tokens[j].src \in Consumed
        /\ Len(timeframes) = Len(tokens)
        /\ Cardinality(TokenLinks) = Len(tokens)
        /\ \A j \in 1..Len(tokens) :
              Cardinality({a \in TokenLinks : aligns[a].source = timeframes[j].id
                                              /\ aligns[a].target = tokens[j].id}) = 1
        /\ (pc = "done" /\ speech_segments = SuiteSegments /\ words = SuiteWords) =>
              /\ Len(textdocs) = 2 /\ Len(tokens) = 9
              /\ Len(timeframes) = 9 /\ Len(aligns) = 10
              /\ {k \in Consumed : \A j \in 1..Len(tokens) : tokens[j].src # k} = {5}
              /\ PatchworkTime(words[6]) = ToSub(10 * timeunit_conv[timeunit])

C4_Witness ==
    /\ pc = "done" /\ speech_segments = SuiteSegments /\ words = SuiteWords
    /\ Len(tokens) = 9 /\ Len(aligns) = 10

(* C6: a token whose patchwork time lies strictly between the end of a      *)
(* segment and the start of the next one, or past the end of the last       *)
(* segment, never appears among the emitted tokens or time frames (every    *)
(* time frame belongs to a token that is not such a token), and processing  *)
(* it raises no error.                                                      *)
C6_GapTokensDropped ==
    Walking =>
        /\ error = ""
        /\ \A k \in Consumed :
              InGapOrPast(layout, PatchworkTime(words[k + 1])) =>
                  \A j \in 1..Len(tokens) : tokens[j].src # k
        /\ \A f \in 1..Len(timeframes) :
              \E a \in TokenLinks : \E j \in 1..Len(tokens) :
                  /\ aligns[a].source = timeframes[f].id
                  /\ aligns[a].target = tokens[j].id
                  /\ ~InGapOrPast(layout, PatchworkTime(words[tokens[j].src + 1]))

C6_Witness ==
    /\ pc = "done" /\ Len(words) = 2 /\ Len(layout.patchwork_starts) = 3
    /\ InGapOrPast(layout, PatchworkTime(words[1]))
    /\ PatchworkTime(words[1]) < ToSub(layout.patchwork_starts[2])
    /\ Len(tokens) = 1 /\ tokens[1].src = 1

\* the segment (1-based rank in the layout) token j was located in, and the
\* offset of that segment in multiples of 1/Res of a time unit
SegOfToken(j) == LocatedAt(layout, PatchworkTime(words[tokens[j].src + 1]))

OffsetOfToken(j) ==
    ToSub(layout.original_starts[SegOfToken(j)] - layout.patchwork_starts[SegOfToken(j)])

(* C7, as claimed: the time frame of an accepted token located in segment i *)
(* has start == patchwork_time + (original_start[i] - patchwork_start[i])  *)
(* and end == start + duration.                                             *)
C7_ExactTimeMapping ==
    Walking =>
        \A j \in 1..Len(tokens) :
            LET w == words[tokens[j].src + 1]
            IN  /\ ToSub(timeframes[j].start) = PatchworkTime(w) + OffsetOfToken(j)
                /\ ToSub(timeframes[j].end) = ToSub(timeframes[j].start) + DurationUnits(w)

(* C7, amended: start is patchwork_time + offset and end is patchwork_time *)
(* + duration + offset, each truncated to a whole time unit, so taking the  *)
(* offset from the emitted start gives the patchwork time to within one     *)
(* time unit, and exactly when time and duration are whole time units.      *)
C7_TruncatedTimeMapping ==
    Walking =>
        \A j \in 1..Len(tokens) :
            LET w == words[tokens[j].src + 1]
                s == PatchworkTime(w) + OffsetOfToken(j)
                e == PatchworkTime(w) + DurationUnits(w) + OffsetOfToken(j)
            IN  /\ ToSub(timeframes[j].start) <= s /\ s < ToSub(timeframes[j].start + 1)
                /\ ToSub(timeframes[j].end) <= e /\ e < ToSub(timeframes[j].end + 1)
                /\ (PatchworkTime(w) % Res = 0 /\ DurationUnits(w) % Res = 0) =>
                      /\ ToSub(timeframes[j].start) - OffsetOfToken(j) = PatchworkTime(w)
                      /\ ToSub(timeframes[j].end) = ToSub(timeframes[j].start) + DurationUnits(w)

C7_Witness ==
    /\ pc = "done" /\ Len(tokens) = 2
    /\ SegOfToken(1) = 2 /\ OffsetOfToken(1) < 0
    /\ PatchworkTime(words[tokens[1].src + 1]) % Res = 0
    /\ DurationUnits(words[tokens[1].src + 1]) % Res = 0
    /\ timeframes[1].end = timeframes[1].start + Trunc(DurationUnits(words[tokens[1].src + 1]))
    /\ timeframes[1].end > timeframes[1].start
    /\ SegOfToken(2) = 3 /\ OffsetOfToken(2) > 0
    /\ PatchworkTime(words[tokens[2].src + 1]) % Res # 0

----------------------------------------------------------------------------
(* The un-segmented path. *)

AudioLinks ==
    {a \in 1..Len(aligns) : aligns[a].source = AudioDocId /\ aligns[a].target = TdId(1)}

\* what C5 says of everything but the time frames' values: one TextUnit of all
\* n words joined in order, n Tokens that slice it, n TimeFrames, one
\* whole-audio link, n token links, nothing rejected
SingleShape ==
    LET n == Len(words)
        text == textdocs[1].text
    IN  /\ Len(textdocs) = 1
        /\ text = Joined([i \in 1..n |-> words[i].word])
        /\ Len(tokens) = n /\ Len(timeframes) = n
        /\ \A j \in 1..n :
              /\ tokens[j].src = j - 1
              /\ tokens[j].word = words[j].word
              /\ tokens[j].document = 1
              /\ tokens[j].end <= Len(text)
              /\ SubSeq(text, tokens[j].start + 1, tokens[j].end) = words[j].word
              /\ Cardinality({a \in TokenLinks : aligns[a].source = timeframes[j].id
                                                  /\ aligns[a].target = tokens[j].id}) = 1
        /\ Cardinality(AudioLinks) = 1
        /\ Cardinality(TokenLinks) = n
        /\ Len(aligns) = n + 1

(* C5, as claimed: for a token list of length n the un-segmented path emits *)
(* one TextUnit of all n words in order joined by the boundary character, n *)
(* Tokens whose slice of the text is their word, n TimeFrames whose start   *)
(* equals the token's own time and whose end is start plus duration, one    *)
(* whole-audio link and n token links; no token is rejected.                *)
C5_SingleExactTimes ==
    pc = "done" =>
        /\ SingleShape
        /\ \A j \in 1..Len(words) :
              /\ ToSub(timeframes[j].start) = PatchworkTime(words[j])
              /\ ToSub(timeframes[j].end) = ToSub(timeframes[j].start) + DurationUnits(words[j])

(* C5, amended: the same, with each TimeFrame's start the token's own time *)
(* truncated to a whole time unit (no translation) and its end that start   *)
(* plus the duration truncated to a whole time unit; start and end are the  *)
(* time and time plus duration when both are whole time units.              *)
C5_SingleTruncatedTimes ==
    pc = "done" =>
        /\ SingleShape
        /\ \A j \in 1..Len(words) :
              LET st == timeframes[j].start
                  len == timeframes[j].end - timeframes[j].start
              IN  /\ ToSub(st) <= PatchworkTime(words[j]) /\ PatchworkTime(words[j]) < ToSub(st + 1)
                  /\ ToSub(len) <= DurationUnits(words[j]) /\ DurationUnits(words[j]) < ToSub(len + 1)
                  /\ (PatchworkTime(words[j]) % Res = 0 /\ DurationUnits(words[j]) % Res = 0) =>
                        /\ ToSub(st) = PatchworkTime(words[j])
                        /\ ToSub(timeframes[j].end) = PatchworkTime(words[j]) + DurationUnits(words[j])

C5_Witness ==
    /\ pc = "done" /\ Len(words) = 2 /\ Len(tokens) = 2
    /\ words[1].word = <<"b", "c">> /\ words[2].word = <<"a">>
    /\ textdocs[1].text = <<"b", "c", " ", "a">>
    /\ tokens[2].start = 3 /\ tokens[2].end = 4
    /\ PatchworkTime(words[1]) % Res # 0
    /\ Len(aligns) = 3


----------------------------------------------------------------------------
(* One _annotate run. *)

\* control is back with the caller: _annotate returned, or an exception left it
BackWithCaller == pc \in {"returned", "raised"}

(* C8: on every exit path of one annotate run, the failure of the trimmer  *)
(* or of the recognizer included, every temporary directory the run created *)
(* has been released before control returns to the caller.                  *)
C8_TmpDirsReleasedOnEveryExit ==
    BackWithCaller => run.live = {}

CompleteViews == {run.views[i].doc : i \in {j \in 1..Len(run.views) : run.views[j].complete}}

\* every document has a transcript, none lacks a segmentation view while
\* another has one, and every segmentation view has speech segments: only a
\* malformed transcript can make a conversion fail
OnlyMalformedCanFail ==
    /\ run.transcripts = 1..Len(batch)
    /\ \A d \in run.transcripts : run.tf_src_view # {} => d \in run.tf_src_view
    /\ \A d \in run.tf_src_view : batch[d].speech

(* C9: malformed recognizer output for one input of a batch is fatal for    *)
(* that input only: every other input is still converted and its TextUnits, *)
(* tokens and links are present in the result.                              *)
C9_MalformedOutputIsLocal ==
    (BackWithCaller /\ OnlyMalformedCanFail) =>
        \A d \in 1..Len(batch) : batch[d].transcript = "ok" => d \in CompleteViews


----------------------------------------------------------------------------
(* The step from one segment to a later one.                               *)

\* the word the loop is about to take
NextWord == words[index + 1]

\* the 0-based index of the segment the next word is located in
NextSegment == LocatedAt(layout, PatchworkTime(NextWord)) - 1

\* an accepted word located in a segment after the current one is next
JumpAhead == pc = "loop" /\ Accepts(layout, NextWord) /\ NextSegment > cur_segment

\* the step closes the current TextUnit for the current segment and opens a
\* new one for the word's segment, which receives the word
ClosesAndOpens ==
    /\ textdocs'[textdoc].text = raw_text
    /\ Len(aligns') = Len(aligns) + 2
    /\ aligns'[Len(aligns) + 1] =
           [source |-> SegmentId(layout.segment_ids[cur_segment + 1]), target |-> TdId(textdoc)]
    /\ Len(textdocs') = Len(textdocs) + 1
    /\ textdoc' = Len(textdocs')
    /\ cur_segment' = NextSegment
    /\ raw_text' = NextWord.word
    /\ Len(tokens') = Len(tokens) + 1
    /\ tokens'[Len(tokens')].document = textdoc'

(* C11: whenever an accepted token is located in a segment after the       *)
(* current one, by any amount, the step finalizes the current TextUnit for  *)
(* the current segment, emits that segment's alignment link, resets the     *)
(* text buffer, starts a new TextUnit and makes the token's segment the     *)
(* current one, so that the token lands in the new TextUnit.                *)
C11_JumpByAnyAmount == [][JumpAhead => ClosesAndOpens]_vars

\* the same for a step to the very next segment only
C11_JumpByOne == [][(JumpAhead /\ NextSegment = cur_segment + 1) => ClosesAndOpens]_vars


----------------------------------------------------------------------------
(* Character offsets in the segmented walk.                                *)

\* the words of the tokens that precede token j in its own TextUnit
WordsBefore(j) ==
    LET before == SelectSeq([i \in 1..(j - 1) |-> i],
                            LAMBDA i : tokens[i].document = tokens[j].document)
    IN  [i \in 1..Len(before) |-> tokens[before[i]].word]

\* the length of the text accumulated so far, plus the boundary when it is not empty
OffsetAfter(ws) == IF ws = <<>> THEN 0 ELSE Len(Joined(ws)) + 1

LocalOffsets ==
    Walking =>
        \A j \in 1..Len(tokens) :
            /\ tokens[j].start = OffsetAfter(WordsBefore(j))
            /\ tokens[j].end = tokens[j].start + Len(tokens[j].word)

\* a rejected word leaves the running state of the walk as it was
RejectedChangesNothing ==
    (pc = "loop" /\ ~Accepts(layout, NextWord)) =>
        UNCHANGED <<cur_segment, raw_text, position, textdoc, textdocs, tokens,
                    timeframes, aligns>>

(* C12: in the segmented walk every token's char_start is the length of    *)
(* its TextUnit's text accumulated so far (plus one boundary character     *)
(* when that text is not empty) and char_end is char_start plus the length  *)
(* of the word, so offsets restart at zero with each new TextUnit; a        *)
(* rejected token advances neither the offsets nor any other running state. *)
C12_LocalCharOffsets == []LocalOffsets /\ [][RejectedChangesNothing]_vars

\* the part of it that the walk keeps: the span of a token has its word's length
C12_SpanHasWordLength ==
    Walking => \A j \in 1..Len(tokens) : tokens[j].end = tokens[j].start + Len(tokens[j].word)


----------------------------------------------------------------------------
(* The acceptance test.                                                    *)

\* a token has been emitted for the word of transcript index k
Emitted(k) == \E j \in 1..Len(tokens) : tokens[j].src = k

\* the word starts and ends no later than the end of the segment it is located in
WithinClosed(L, w) ==
    LET i == LocatedAt(L, PatchworkTime(w))
    IN  /\ i >= 1
        /\ PatchworkTime(w) <= ToSub(L.patchwork_ends[i])
        /\ PatchworkTime(w) + DurationUnits(w) <= ToSub(L.patchwork_ends[i])

(* C13: with i the greatest index such that patchwork_start[i] <= t, a     *)
(* token (t, duration) is accepted if and only if t <= patchwork_end[i]     *)
(* and t + duration <= patchwork_end[i]; a token ending exactly at          *)
(* patchwork_end[i] is accepted.                                            *)
C13_AcceptedIffWithinClosed ==
    Walking => \A k \in Consumed : Emitted(k) <=> WithinClosed(layout, words[k + 1])

\* what the walk does: both comparisons are strict
C13_AcceptedIffWithinOpen ==
    Walking => \A k \in Consumed : Emitted(k) <=> Accepts(layout, words[k + 1])

\* a word at the very start of a segment is located in that segment
C13_StartBelongsToSegment ==
    Walking =>
        \A j \in 1..Len(tokens) :
            LET w == words[tokens[j].src + 1]
                o == SegOfToken(j)
            IN  /\ ToSub(layout.patchwork_starts[o]) <= PatchworkTime(w)
                /\ timeframes[j].start = Trunc(PatchworkTime(w) + OffsetOfToken(j))


----------------------------------------------------------------------------
(* _patchwork_audiofiles for one audio document with a segmentation view,  *)
(* followed by the layout made from the same view's annotations when the   *)
(* transcript is converted.  The trimmer is the external ffmpeg process:   *)
(* it is handed the intervals and either succeeds or fails.                 *)

\* start and end "converted into seconds": the quotient of the value and
\* timeunit_conv of the view's time unit
Seconds(value, unit) == [num |-> value, den |-> timeunit_conv[unit]]

\* lines 248-250: the list given to _patchwork_audiofile, in annotation order
PatchworkSegments(segs, unit) ==
    [k \in 1..Len(segs) |-> <<Seconds(segs[k].start, unit), Seconds(segs[k].end, unit)>>]

\* an audio document with one segmentation view and a well-formed transcript
SegmentedDocs == {d \in Docs : d.segment_views = 1 /\ d.transcript = "ok"}

InitPatchwork ==
    /\ pc = "patchwork_file" /\ error = ""
    /\ speech_segments \in SegLists
    /\ layout = NoLayout
    /\ words = <<>> /\ IdleWalk
    /\ batch \in {<<d>> : d \in SegmentedDocs}
    /\ batch[1].speech = (speech_segments # <<>>)
    /\ run = NoRun

\* lines 245-252 and 274-289: the view's time unit is looked up, then the
\* patches are concatenated in the order given; run.step tells whether ffmpeg
\* made the file ("trimmed"), failed ("failed") or was never started ("rejected")
PatchworkAudiofile ==
    /\ pc = "patchwork_file"
    /\ LET unit == batch[1].timeunit
       IN  IF TimeunitError(unit, batch[1].speech) # ""
           THEN /\ pc' = "raised"
                /\ error' = TimeunitError(unit, batch[1].speech)
                /\ UNCHANGED run
           ELSE \E outcome \in TrimmerOutcomes(batch[1].speech) :
                   IF outcome = "ok"
                   THEN /\ run' = [step |-> "trimmed",
                                   segments |-> PatchworkSegments(speech_segments, unit)]
                        /\ pc' = "align"
                        /\ UNCHANGED error
                   ELSE /\ run' = [step |-> IF outcome = "ffmpeg.Error"
                                            THEN "failed" ELSE "rejected",
                                   segments |-> PatchworkSegments(speech_segments, unit)]
                        /\ pc' = "raised"
                        /\ error' = outcome
    /\ UNCHANGED <<speech_segments, words, layout, index, cur_segment, raw_text, position,
                   textdoc, textdocs, tokens, timeframes, aligns, batch>>

NextPatchwork == PatchworkAudiofile \/ AlignSegmentations

SpecPatchwork == InitPatchwork /\ [][NextPatchwork]_vars

\* the trimmer has spliced the audio and the layout has been made
Spliced == pc = "done" /\ run.step = "trimmed"

\* the k-th interval handed to the trimmer is the k-th entry of the layout
SameOrder ==
    /\ Len(run.segments) = Len(layout.original_starts)
    /\ \A k \in 1..Len(run.segments) :
          run.segments[k] = <<Seconds(layout.original_starts[k], batch[1].timeunit),
                              Seconds(layout.original_ends[k], batch[1].timeunit)>>

(* C14: for every ordering of the segment annotations in the source view,  *)
(* the k-th interval handed to the audio trimmer is the k-th layout        *)
(* entry's (original_start, original_end) converted to seconds.            *)
C14_TrimmerOrderIsLayoutOrder == Spliced => SameOrder

\* the same for a view whose annotations are in non-decreasing order of start
C14_SortedViewKeepsOrder ==
    (Spliced /\ \A k \in 1..(Len(speech_segments) - 1) :
                    speech_segments[k].start <= speech_segments[k + 1].start)
        => SameOrder


----------------------------------------------------------------------------
(* The order of the transcript's words.                                    *)

RECURSIVE SegmentedWalk(_, _, _, _)
\* the loop of the segmented walk run from state s over the words ws from index idx on
SegmentedWalk(s, L, ws, idx) ==
    IF idx >= Len(ws) THEN s
    ELSE SegmentedWalk(SegmentedBody(s, L, ws[idx + 1], idx), L, ws, idx + 1)

\* a word put into a time-sorted list, after the words of the same time
InsertByTime(sorted, w) ==
    LET before == SelectSeq(sorted, LAMBDA x : x.time <= w.time)
        after == SelectSeq(sorted, LAMBDA x : x.time > w.time)
    IN  before \o <<w>> \o after

RECURSIVE TimeSortedUpTo(_, _)
TimeSortedUpTo(ws, n) ==
    IF n = 0 THEN <<>> ELSE InsertByTime(TimeSortedUpTo(ws, n - 1), ws[n])

\* the words in non-decreasing order of patchwork time
TimeSorted(ws) == TimeSortedUpTo(ws, Len(ws))

\* what a walk emits: TextUnits, tokens, time frames and links
Emits(s) ==
    [textdocs |-> s.textdocs,
     tokens |-> [j \in 1..Len(s.tokens) |->
                    [id |-> s.tokens[j].id, word |-> s.tokens[j].word,
                     start |-> s.tokens[j].start, end |-> s.tokens[j].end,
                     document |-> s.tokens[j].document]],
     timeframes |-> s.timeframes,
     aligns |-> s.aligns]

DistinctTimes(ws) == \A a, b \in 1..Len(ws) : a # b => ws[a].time # ws[b].time

(* C15: whatever the arrival order of the tokens (of distinct times), the  *)
(* segmented walk emits the TextUnits, tokens, time frames and links that   *)
(* it emits for the same tokens in non-decreasing order of patchwork time.  *)
C15_ArrivalOrderIrrelevant ==
    (pc = "done" /\ DistinctTimes(words)) =>
        Emits(WalkState) = Emits(SegmentedWalk(SegmentedStart, layout, TimeSorted(words), 0))

\* the walk takes the words in arrival order
C15_ArrivalOrderWalk ==
    pc = "done" => WalkState = SegmentedWalk(SegmentedStart, layout, words, 0)


----------------------------------------------------------------------------
(* Batches that mix documents with and without a segmentation view.        *)

\* use_speech_segmentation is on, every document has at most one segmentation
\* view, in a known time unit, some have one and some have none, and every
\* transcript is well-formed
MixedBatch ==
    /\ run.use_speech_segmentation
    /\ \A d \in 1..Len(batch) :
          batch[d].segment_views = 1 =>
              batch[d].speech /\ batch[d].timeunit \in DOMAIN timeunit_conv
    /\ \E d \in 1..Len(batch) : batch[d].segment_views = 1
    /\ \E d \in 1..Len(batch) : batch[d].segment_views = 0
    /\ \A d \in 1..Len(batch) : batch[d].transcript = "ok"

\* the conversion a document is expected to go through
ExpectedPath(d) == IF batch[d].segment_views = 0 THEN "single" ELSE "segmented"

\* the failures of the external processes, the only ones such a run may end in
ExternalFailures == {"ffmpeg.Error", "CalledProcessError"}

(* C16: when use_speech_segmentation is on and the batch mixes documents    *)
(* that have a segmentation view with documents that have none, every       *)
(* document without segmentation is converted through the un-segmented      *)
(* path and every document with segmentation through the segmented path,    *)
(* and the run does not fail on the documents that lack segmentation.       *)
C16_MixedBatchFallsBack ==
    MixedBatch =>
        /\ \A v \in 1..Len(run.views) :
               /\ run.views[v].complete
               /\ run.views[v].path = ExpectedPath(run.views[v].doc)
        /\ pc = "raised" => error \in ExternalFailures
        /\ pc = "returned" => {run.views[v].doc : v \in 1..Len(run.views)} = 1..Len(batch)

\* the documents that have a segmentation view are converted through the
\* segmented path whenever the patchwork holds one at all
C16_SegmentedDocsTakeSegmentedPath ==
    MixedBatch =>
        \A v \in 1..Len(run.views) :
            batch[run.views[v].doc].segment_views = 1 =>
                run.views[v].complete /\ run.views[v].path = "segmented"

====
